---- MODULE Spec2Model ----
(***************************************************************************)
(* Model of src/src/lib.rs: smart-home devices, rooms, a house and the two *)
(* report providers (OwningDeviceInfoProvider, BorrowingDeviceInfoProvider)*)
(*                                                                         *)
(* A Rust String is modelled as a sequence of text pieces; format! is the  *)
(* concatenation of the pieces of its template and of its arguments.       *)
(* A Result is a record [ok, val]: Ok(s) is [ok |-> TRUE, val |-> s],      *)
(* Ok(()) is [ok |-> TRUE, val |-> <<>>], Err(m) is [ok |-> FALSE,         *)
(* val |-> m].  An Option<&SmartRoom> into house.rooms is the index of the *)
(* room in the vector, 0 standing for None.                                *)
(***************************************************************************)
EXTENDS Integers, Sequences, FiniteSets, TLC

\* ------------------------------------------------------------------ bounds
\* Largest number of rooms the house vector may hold.
MaxRooms == 2
\* Largest number of devices a room vector may hold.
MaxDevices == 2

\* Names the caller passes to SmartRoom::new / SmartHouse::new /
\* SmartSocket::new / SmartThermometer::new.
RoomNames == {"limb", "lust", "Boiler"}
DevNames == {"Main socket", "Thermometer 1"}
HouseName == "hell"
\* Names the caller gives to the sockets and to the thermometers it plugs:
\* one name is used for a device of either type.
SocketNames == {"Main socket"}
ThermoNames == {"Thermometer 1", "Main socket"}

\* ------------------------------------------------------------ device types
SmartSocket(n) == [kind |-> "Socket", name |-> n]

SmartThermometer(n) == [kind |-> "Thermometer", name |-> n]

\* Every value an Arc<dyn Pluggable> can point to.
Pluggable == {SmartSocket(n) : n \in SocketNames} \cup {SmartThermometer(n) : n \in ThermoNames}

\* Named::name
name(x) == x.name

\* ------------------------------------------------------------------- rooms
SmartRoom_new(n) == [name |-> n, devices |-> <<>>]

Ok(v) == [ok |-> TRUE, val |-> v]

Err(m) == [ok |-> FALSE, val |-> m]

\* SmartRoom::is_connected: some device of the room has the device's name.
is_connected(room, device) ==
    \E i \in 1..Len(room.devices) : name(room.devices[i]) = name(device)

\* SmartRoom::devices: the names of the devices, in insertion order.
devices(room) == [i \in 1..Len(room.devices) |-> name(room.devices[i])]

\* Mutant of plug: the name check is missing.
plug_unchecked(room, device) ==
    [self |-> [room EXCEPT !.devices = Append(@, device)], ret |-> Ok(<<>>)]

\* Mutant of plug: a device is a duplicate only if its type matches too.
plug_same_type(room, device) ==
    IF \E i \in 1..Len(room.devices) : room.devices[i] = device
    THEN [self |-> room,
          ret |-> Err(<<"Device with name ", name(device), " already pluged">>)]
    ELSE [self |-> [room EXCEPT !.devices = Append(@, device)],
          ret |-> Ok(<<>>)]

\* SmartRoom::plug: the room after the call and the returned Result.
plug(room, device) ==
    IF \E i \in 1..Len(room.devices) : name(room.devices[i]) = name(device)
    THEN [self |-> room,
          ret |-> Err(<<"Device with name ", name(device), " already pluged">>)]
    ELSE [self |-> [room EXCEPT !.devices = Append(@, device)],
          ret |-> Ok(<<>>)]

\* ------------------------------------------------------------------- house
SmartHouse_new(n) == [name |-> n, rooms |-> <<>>]

\* SmartHouse::get_rooms
get_rooms(h) == h.rooms

\* Mutant of add: the name check is missing.
add_unchecked(h, room) ==
    [self |-> [h EXCEPT !.rooms = Append(@, room)], ret |-> Ok(<<>>)]

\* Mutant of add: a failed add still stores the room.
add_then_fail(h, room) ==
    IF \E i \in 1..Len(get_rooms(h)) : name(get_rooms(h)[i]) = name(room)
    THEN [self |-> [h EXCEPT !.rooms = Append(@, room)],
          ret |-> Err(<<"room ", name(room), " already constructed">>)]
    ELSE [self |-> [h EXCEPT !.rooms = Append(@, room)],
          ret |-> Ok(<<>>)]

\* Mutant of add: the room is inserted at the front of the vector.
add_front(h, room) ==
    IF \E i \in 1..Len(get_rooms(h)) : name(get_rooms(h)[i]) = name(room)
    THEN [self |-> h,
          ret |-> Err(<<"room ", name(room), " already constructed">>)]
    ELSE [self |-> [h EXCEPT !.rooms = <<room>> \o @],
          ret |-> Ok(<<>>)]

\* SmartHouse::add: the house after the call and the returned Result.
add(h, room) ==
    IF \E i \in 1..Len(get_rooms(h)) : name(get_rooms(h)[i]) = name(room)
    THEN [self |-> h,
          ret |-> Err(<<"room ", name(room), " already constructed">>)]
    ELSE [self |-> [h EXCEPT !.rooms = Append(@, room)],
          ret |-> Ok(<<>>)]

\* ----------------------------------------------------------------- Display
\* writeln!(f, "----> Device: Socket[{}]", self.name())
fmt_SmartSocket(s) == <<"----> Device: Socket[", name(s), "]", "\n">>

\* writeln!(f, "----> Device: Thermometer[{}]", self.name())
fmt_SmartThermometer(t) == <<"----> Device: Thermometer[", name(t), "]", "\n">>

\* writeln!(f, "--> Room: {}", self.name())
fmt_SmartRoom(r) == <<"--> Room: ", name(r), "\n">>

\* writeln!(f, "-> House: {}", self.name)
fmt_SmartHouse(h) == <<"-> House: ", h.name, "\n">>

\* The " " between two arguments of a format! template.
SP == <<" ">>

\* ----------------------------------------------------------------- reports
\* The for loop of OwningDeviceInfoProvider::make from room i on.
RECURSIVE OwningLoop(_, _, _)
OwningLoop(socket, h, i) ==
    IF i > Len(h.rooms) THEN Err(<<"Device not found">>)
    ELSE IF is_connected(h.rooms[i], socket)
         THEN Ok(fmt_SmartHouse(h) \o SP \o fmt_SmartRoom(h.rooms[i]) \o SP
                 \o fmt_SmartSocket(socket))
         ELSE OwningLoop(socket, h, i + 1)

\* Mutant of OwningDeviceInfoProvider::make: the loop does not return at the
\* first match, the last matching room is reported.
RECURSIVE OwningLoopLast(_, _, _)
OwningLoopLast(socket, h, i) ==
    IF i < 1 THEN Err(<<"Device not found">>)
    ELSE IF is_connected(h.rooms[i], socket)
         THEN Ok(fmt_SmartHouse(h) \o SP \o fmt_SmartRoom(h.rooms[i]) \o SP
                 \o fmt_SmartSocket(socket))
         ELSE OwningLoopLast(socket, h, i - 1)

OwningDeviceInfoProvider_make_last(socket, h) == OwningLoopLast(socket, h, Len(h.rooms))

\* OwningDeviceInfoProvider::make
OwningDeviceInfoProvider_make(socket, h) == OwningLoop(socket, h, 1)

\* The for loop of BorrowingDeviceInfoProvider::make from room i on, with the
\* two Options found so far; yields <<plugged_socket_room, plugged_thermo_room>>.
RECURSIVE BorrowingLoop(_, _, _, _, _, _)
BorrowingLoop(socket, thermo, h, i, ps, pt) ==
    IF i > Len(get_rooms(h)) THEN <<ps, pt>>
    ELSE BorrowingLoop(socket, thermo, h, i + 1,
                       IF is_connected(get_rooms(h)[i], socket) THEN i ELSE ps,
                       IF is_connected(get_rooms(h)[i], thermo) THEN i ELSE pt)

\* Mutant of the scan: an Option already set is not overwritten.
RECURSIVE BorrowingLoopFirst(_, _, _, _, _, _)
BorrowingLoopFirst(socket, thermo, h, i, ps, pt) ==
    IF i > Len(get_rooms(h)) THEN <<ps, pt>>
    ELSE BorrowingLoopFirst(socket, thermo, h, i + 1,
             IF ps = 0 /\ is_connected(get_rooms(h)[i], socket) THEN i ELSE ps,
             IF pt = 0 /\ is_connected(get_rooms(h)[i], thermo) THEN i ELSE pt)

find_rooms_first(socket, thermo, h) == BorrowingLoopFirst(socket, thermo, h, 1, 0, 0)

\* The scan of BorrowingDeviceInfoProvider::make: both Options start as None.
find_rooms(socket, thermo, h) == BorrowingLoop(socket, thermo, h, 1, 0, 0)

\* What a panicking call leaves: no Result reaches the caller.
Panic == [ok |-> FALSE, val |-> <<"panicked: called Option::unwrap() on a None value">>]

\* Option::unwrap on an Option<&SmartRoom>: <<>> stands for the panic on None.
unwrap(h, o) == IF o = 0 THEN <<>> ELSE <<get_rooms(h)[o]>>

\* Mutant of the both-found branch: the two rooms are swapped in the
\* five-argument template.
both_found_swapped(socket, thermo, h, ps, pt) ==
    LET plugged_socket_room == unwrap(h, ps)
        plugged_thermo_room == unwrap(h, pt)
    IN  IF plugged_socket_room = <<>> \/ plugged_thermo_room = <<>> THEN Panic
        ELSE IF name(plugged_socket_room[1]) = name(plugged_thermo_room[1])
        THEN Ok(fmt_SmartHouse(h) \o SP \o fmt_SmartRoom(plugged_socket_room[1]) \o SP
                \o fmt_SmartSocket(socket) \o SP \o fmt_SmartThermometer(thermo))
        ELSE Ok(fmt_SmartHouse(h) \o SP \o fmt_SmartRoom(plugged_thermo_room[1]) \o SP
                \o fmt_SmartSocket(socket) \o SP \o fmt_SmartRoom(plugged_socket_room[1])
                \o SP \o fmt_SmartThermometer(thermo))

\* BorrowingDeviceInfoProvider::make, the branch taken when both Options are
\* Some: the two unwraps and the two templates.
both_found(socket, thermo, h, ps, pt) ==
    LET plugged_socket_room == unwrap(h, ps)
        plugged_thermo_room == unwrap(h, pt)
    IN  IF plugged_socket_room = <<>> \/ plugged_thermo_room = <<>> THEN Panic
        ELSE IF name(plugged_socket_room[1]) = name(plugged_thermo_room[1])
        THEN Ok(fmt_SmartHouse(h) \o SP \o fmt_SmartRoom(plugged_socket_room[1]) \o SP
                \o fmt_SmartSocket(socket) \o SP \o fmt_SmartThermometer(thermo))
        ELSE Ok(fmt_SmartHouse(h) \o SP \o fmt_SmartRoom(plugged_socket_room[1]) \o SP
                \o fmt_SmartSocket(socket) \o SP \o fmt_SmartRoom(plugged_thermo_room[1])
                \o SP \o fmt_SmartThermometer(thermo))

\* Mutant of the one-found branch: the second match assigns out without
\* the text built by the first match.
one_found_overwrite(socket, thermo, h, ps, pt) ==
    LET out1 == IF ps # 0
                THEN fmt_SmartHouse(h) \o SP \o fmt_SmartRoom(unwrap(h, ps)[1]) \o SP
                     \o fmt_SmartSocket(socket)
                ELSE <<"not found", " ">> \o fmt_SmartSocket(socket)
        out2 == IF pt # 0
                THEN <<"\n", " ">> \o fmt_SmartHouse(h) \o SP
                     \o fmt_SmartRoom(unwrap(h, pt)[1]) \o SP \o fmt_SmartThermometer(thermo)
                ELSE <<" ", "not found", " ">> \o fmt_SmartThermometer(thermo)
    IN  Ok(out2)

\* BorrowingDeviceInfoProvider::make, the else branch: the match on the
\* Option of the socket and then the match on the Option of the thermometer; each
\* unwrap sits in the arm whose Option is Some.
one_found(socket, thermo, h, ps, pt) ==
    LET out1 == IF ps # 0
                THEN fmt_SmartHouse(h) \o SP \o fmt_SmartRoom(unwrap(h, ps)[1]) \o SP
                     \o fmt_SmartSocket(socket)
                ELSE <<"not found", " ">> \o fmt_SmartSocket(socket)
        out2 == IF pt # 0
                THEN out1 \o <<"\n", " ">> \o fmt_SmartHouse(h) \o SP
                     \o fmt_SmartRoom(unwrap(h, pt)[1]) \o SP \o fmt_SmartThermometer(thermo)
                ELSE out1 \o <<" ", "not found", " ">> \o fmt_SmartThermometer(thermo)
    IN  Ok(out2)

\* Mutant of BorrowingDeviceInfoProvider::make: the early return tests
\* "either is None" (|| for &&).
BorrowingDeviceInfoProvider_make_either(socket, thermo, h) ==
    LET found == find_rooms(socket, thermo, h)
    IN  IF found[2] = 0 \/ found[1] = 0
        THEN Err(<<"Devices not found">>)
        ELSE both_found(socket, thermo, h, found[1], found[2])

\* BorrowingDeviceInfoProvider::make
BorrowingDeviceInfoProvider_make(socket, thermo, h) ==
    LET found == find_rooms(socket, thermo, h)
        plugged_socket_room == found[1]
        plugged_thermo_room == found[2]
    IN  IF plugged_thermo_room = 0 /\ plugged_socket_room = 0
        THEN Err(<<"Devices not found">>)
        ELSE IF plugged_socket_room # 0 /\ plugged_thermo_room # 0
        THEN both_found(socket, thermo, h, plugged_socket_room, plugged_thermo_room)
        ELSE one_found(socket, thermo, h, plugged_socket_room, plugged_thermo_room)

\* SmartHouse::create_report, one definition per provider type.
create_report_Owning(h, socket) == OwningDeviceInfoProvider_make(socket, h)

create_report_Borrowing(h, socket, thermo) ==
    BorrowingDeviceInfoProvider_make(socket, thermo, h)

\* ------------------------------------------------------------------- state
VARIABLES
    house,   \* the SmartHouse
    room,    \* the SmartRoom the caller holds: <<>> or <<r>>
    call     \* the last call: [op, arg, ok, val]

vars == <<house, room, call>>

Call(op, arg, r) == [op |-> op, arg |-> arg, ok |-> r.ok, val |-> r.val]

Init ==
    /\ house = SmartHouse_new(HouseName)
    /\ room = <<>>
    /\ call = Call("SmartHouse::new", <<HouseName>>, Ok(<<>>))

\* let r = SmartRoom::new(n); a room held before is dropped.
NewRoom(n) ==
    /\ room' = <<SmartRoom_new(n)>>
    /\ call' = Call("SmartRoom::new", <<n>>, Ok(<<>>))
    /\ UNCHANGED house

\* r.plug(Arc::new(d))
Plug(d) ==
    /\ room # <<>>
    /\ LET p == plug(room[1], d)
       IN  /\ Len(p.self.devices) <= MaxDevices
           /\ room' = <<p.self>>
           /\ call' = Call("plug", <<d.kind, d.name>>, p.ret)
    /\ UNCHANGED house

\* house.add(r): the room is moved into the call, whatever the result.
Add ==
    /\ room # <<>>
    /\ LET a == add(house, room[1])
       IN  /\ Len(a.self.rooms) <= MaxRooms
           /\ house' = a.self
           /\ call' = Call("add", <<name(room[1])>>, a.ret)
    /\ room' = <<>>

\* house.create_report(OwningDeviceInfoProvider { socket })
ReportOwning(n) ==
    /\ call' = Call("owning", <<n>>, create_report_Owning(house, SmartSocket(n)))
    /\ UNCHANGED <<house, room>>

\* house.create_report(BorrowingDeviceInfoProvider { socket: &s, thermo: &t })
ReportBorrowing(s, t) ==
    /\ call' = Call("borrowing", <<s, t>>,
                    create_report_Borrowing(house, SmartSocket(s), SmartThermometer(t)))
    /\ UNCHANGED <<house, room>>

Next ==
    \/ \E n \in RoomNames : NewRoom(n)
    \/ \E d \in Pluggable : Plug(d)
    \/ Add
    \/ \E n \in DevNames : ReportOwning(n)
    \/ \E s \in DevNames, t \in DevNames : ReportBorrowing(s, t)

Spec == Init /\ [][Next]_vars

\* ------------------------------------------------------------- properties
\* Room i of the house holds a device named n.
Holds(i, n) ==
    \E j \in 1..Len(house.rooms[i].devices) : house.rooms[i].devices[j].name = n

\* Some room of the house holds a device named n.
Found(n) == \E i \in 1..Len(house.rooms) : Holds(i, n)

\* The first and the last room, in the order of the vector, holding n.
FirstRoom(n) ==
    CHOOSE i \in 1..Len(house.rooms) : Holds(i, n) /\ \A k \in 1..(i - 1) : ~Holds(k, n)

LastRoom(n) ==
    CHOOSE i \in 1..Len(house.rooms) :
        Holds(i, n) /\ \A k \in (i + 1)..Len(house.rooms) : ~Holds(k, n)

\* The names of the rooms of the house, in order.
RoomSeq == [i \in 1..Len(house.rooms) |-> house.rooms[i].name]

\* No two positions of a sequence of named things carry the same name.
DistinctNames(seq) ==
    \A i, j \in 1..Len(seq) : seq[i].name = seq[j].name => i = j

\* The segment <house> <room> <device> of a report, for room i.
SocketSegment(i, s) ==
    fmt_SmartHouse(house) \o SP \o fmt_SmartRoom(house.rooms[i]) \o SP
    \o fmt_SmartSocket(SmartSocket(s))

ThermoSegment(i, t) ==
    fmt_SmartHouse(house) \o SP \o fmt_SmartRoom(house.rooms[i]) \o SP
    \o fmt_SmartThermometer(SmartThermometer(t))

\* text starts with the pieces of pre / ends with the pieces of suf.
StartsWith(text, pre) ==
    Len(text) >= Len(pre) /\ SubSeq(text, 1, Len(pre)) = pre

EndsWith(text, suf) ==
    Len(text) >= Len(suf) /\ SubSeq(text, Len(text) - Len(suf) + 1, Len(text)) = suf

\* The room names a report cites: the pieces that follow "--> Room: ".
CitedRooms(text) ==
    {text[k + 1] : k \in {i \in 1..(Len(text) - 1) : text[i] = "--> Room: "}}

\* C1: a plug of a device whose name is already in the room returns an error
\* and leaves the device sequence of the room (and everything else) as it
\* was; the state after the failed plug is the state before it, so a retry
\* meets the same room again.
C1_PlugDuplicateRejected ==
    [][\A d \in Pluggable :
         (Plug(d) /\ d.name \in {room[1].devices[j].name : j \in 1..Len(room[1].devices)})
         => /\ ~call'.ok
            /\ call'.val = <<"Device with name ", d.name, " already pluged">>
            /\ devices(room'[1]) = devices(room[1])
            /\ room' = room
            /\ house' = house]_vars

\* C1 witness: a plug has just failed on a room holding two devices.
C1_Witness ==
    /\ call.op = "plug" /\ ~call.ok
    /\ room # <<>> /\ Len(room[1].devices) = 2
    /\ call.arg[2] \in {room[1].devices[j].name : j \in 1..2}

\* C2: an add of a room whose name is already in the house returns an error
\* and leaves the room sequence of the house as it was.
C2_AddDuplicateRejected ==
    [][(Add /\ room[1].name \in {house.rooms[i].name : i \in 1..Len(house.rooms)})
       => /\ ~call'.ok
          /\ call'.val = <<"room ", room[1].name, " already constructed">>
          /\ house' = house]_vars

\* C2 witness: "limb", "lust" were added and the add of "limb" has just failed.
C2_Witness ==
    /\ call.op = "add" /\ ~call.ok /\ call.arg = <<"limb">>
    /\ RoomSeq = <<"limb", "lust">>

\* C3: the rooms of the house have pairwise distinct names, and the devices
\* of every room, in the house or still held by the caller, have pairwise
\* distinct names whatever their types.
C3_NamesUnique ==
    /\ DistinctNames(house.rooms)
    /\ \A i \in 1..Len(house.rooms) : DistinctNames(house.rooms[i].devices)
    /\ \A i \in 1..Len(room) : DistinctNames(room[i].devices)

\* C3 witness: a plug of a thermometer named like the socket of the held room
\* has just failed, the house holding two rooms already.
C3_Witness ==
    /\ call.op = "plug" /\ ~call.ok /\ call.arg = <<"Thermometer", "Main socket">>
    /\ room # <<>> /\ SmartSocket("Main socket") \in {room[1].devices[j] : j \in 1..Len(room[1].devices)}
    /\ Len(house.rooms) = 2
    /\ \E i \in 1..2 : Len(house.rooms[i].devices) = 2

\* C4: the owning report is Ok exactly when some room holds the name of the
\* socket; it is then <house> <room> <socket> for the first such room, and
\* otherwise the error "Device not found".
C4_OwningFirstMatch ==
    call.op = "owning" =>
        LET n == call.arg[1]
        IN  /\ call.ok <=> Found(n)
            /\ Found(n) => call.val = SocketSegment(FirstRoom(n), n)
            /\ ~Found(n) => call.val = <<"Device not found">>

\* C4 witness: an owning report succeeded on a house where two rooms hold the name.
C4_Witness ==
    /\ call.op = "owning" /\ call.ok
    /\ Len(house.rooms) = 2 /\ Holds(1, call.arg[1]) /\ Holds(2, call.arg[1])
    /\ CitedRooms(call.val) = {house.rooms[1].name}

\* C5: the borrowing report is an error exactly when neither name is held by
\* any room; the error is "Devices not found" and in every other case the
\* result is Ok; no unwrap panics.
C5_BorrowingErrIffNone ==
    call.op = "borrowing" =>
        /\ ~call.ok <=> (~Found(call.arg[1]) /\ ~Found(call.arg[2]))
        /\ ~call.ok => call.val = <<"Devices not found">>
        /\ call.val # Panic.val

\* C5 witness: a borrowing report failed on a house whose rooms do hold devices.
C5_Witness ==
    /\ call.op = "borrowing" /\ ~call.ok
    /\ Len(house.rooms) = 2
    /\ \A i \in 1..2 : Len(house.rooms[i].devices) > 0

\* Both devices found, in different rooms of the house.
BothFoundApart ==
    /\ call.op = "borrowing"
    /\ Found(call.arg[1]) /\ Found(call.arg[2])
    /\ LastRoom(call.arg[1]) # LastRoom(call.arg[2])

\* C6 as stated: with both devices found in different rooms the result is the
\* segment <house> <room> <socket> followed by the segment
\* <house> <room> <thermometer>.
C6_Original ==
    BothFoundApart =>
        LET s == SocketSegment(LastRoom(call.arg[1]), call.arg[1])
            t == ThermoSegment(LastRoom(call.arg[2]), call.arg[2])
        IN  /\ StartsWith(call.val, s)
            /\ EndsWith(call.val, t)
            /\ Len(call.val) >= Len(s) + Len(t)

\* C6 amended: with both devices found in different rooms the result is
\* <house> <socket room> <socket> <thermometer room> <thermometer>: the
\* socket segment comes first and names the house and its room, the
\* thermometer segment names its room only, the house being named once.
C6_BothFoundApart ==
    BothFoundApart =>
        /\ call.ok
        /\ call.val = SocketSegment(LastRoom(call.arg[1]), call.arg[1]) \o SP
                      \o fmt_SmartRoom(house.rooms[LastRoom(call.arg[2])]) \o SP
                      \o fmt_SmartThermometer(SmartThermometer(call.arg[2]))
        /\ Cardinality({k \in 1..Len(call.val) : call.val[k] = "-> House: "}) = 1

\* C6 witness: socket and thermometer resolved to two different rooms.
C6_Witness ==
    /\ BothFoundApart
    /\ call.arg = <<"Main socket", "Thermometer 1">>
    /\ Cardinality(CitedRooms(call.val)) = 2

\* Exactly one of the two devices is found.
OneFound ==
    /\ call.op = "borrowing"
    /\ Found(call.arg[1]) # Found(call.arg[2])

\* C7: with exactly one device found the result is the segment of the socket
\* followed by the segment of the thermometer; the segment of the device found
\* is <house> <room> <device>, the segment of the missing one is
\* not found <device>.  A found socket is followed by " ", a missing one by
\* a newline and " ".
C7_OneFound ==
    OneFound =>
        LET s == call.arg[1]
            t == call.arg[2]
        IN  /\ call.ok
            /\ Found(s) =>
                 call.val = SocketSegment(LastRoom(s), s) \o SP
                            \o <<"not found", " ">> \o fmt_SmartThermometer(SmartThermometer(t))
            /\ Found(t) =>
                 call.val = <<"not found", " ">> \o fmt_SmartSocket(SmartSocket(s))
                            \o <<"\n", " ">> \o ThermoSegment(LastRoom(t), t)

\* C7 witness: the socket was found, the thermometer was not.
C7_Witness ==
    /\ OneFound
    /\ Found(call.arg[1])
    /\ "not found" \in {call.val[k] : k \in 1..Len(call.val)}

\* The combined form <house> <room> <socket> <thermometer> for room i.
Combined(i, s, t) ==
    SocketSegment(i, s) \o SP \o fmt_SmartThermometer(SmartThermometer(t))

\* C8: the borrowing report has the combined form exactly when both devices
\* are found and resolve to the same position of the room vector.
C8_CombinedIffSameRoom ==
    call.op = "borrowing" =>
        LET s == call.arg[1]
            t == call.arg[2]
        IN  (\E i \in 1..Len(house.rooms) : call.ok /\ call.val = Combined(i, s, t))
            <=> (Found(s) /\ Found(t) /\ LastRoom(s) = LastRoom(t))

\* C8 witness: socket and thermometer of different names resolved to the
\* second room, the first room holding a device too.
C8_Witness ==
    /\ call.op = "borrowing" /\ call.ok
    /\ call.arg = <<"Main socket", "Thermometer 1">>
    /\ Len(house.rooms) = 2
    /\ Len(house.rooms[1].devices) > 0
    /\ call.val = Combined(2, "Main socket", "Thermometer 1")

\* C9: the rooms a borrowing report cites are the last room holding the
\* name of the socket and the last room holding the name of the thermometer.
C9_BorrowingLastMatch ==
    (call.op = "borrowing" /\ call.ok) =>
        CitedRooms(call.val) =
            {house.rooms[LastRoom(n)].name : n \in {m \in {call.arg[1], call.arg[2]} : Found(m)}}

\* C9 witness: the name of the socket is in two rooms; the report cites the
\* second, where an owning report cites the first.
C9_Witness ==
    /\ call.op = "borrowing" /\ call.ok
    /\ Len(house.rooms) = 2 /\ Holds(1, call.arg[1]) /\ Holds(2, call.arg[1])
    /\ ~Found(call.arg[2])
    /\ CitedRooms(call.val) = {house.rooms[2].name}
    /\ CitedRooms(create_report_Owning(house, SmartSocket(call.arg[1])).val)
           = {house.rooms[1].name}

\* C10: a step never changes an owning report that is Ok: the report of the
\* next state for the same socket name is the same Result, and a report just
\* returned to the caller is the one the next state would return.
C10_OwningReportStable ==
    [][/\ \A n \in DevNames :
            create_report_Owning(house, SmartSocket(n)).ok
            => create_report_Owning(house', SmartSocket(n))
                   = create_report_Owning(house, SmartSocket(n))
       /\ (call.op = "owning" /\ call.ok)
            => create_report_Owning(house', SmartSocket(call.arg[1])) = Ok(call.val)]_vars

\* C10 witness: a room holding the name has just been added behind the room
\* an owning report cites, and the report still cites that first room.
C10_Witness ==
    /\ call.op = "add" /\ call.ok
    /\ Len(house.rooms) = 2
    /\ \E n \in DevNames :
         /\ Holds(1, n) /\ Holds(2, n)
         /\ create_report_Owning(house, SmartSocket(n)) = Ok(SocketSegment(1, n))

====
